---- MODULE Spec2Model ----
(***************************************************************************)
(* GlobalQuakeTracker: the two programs of the repository.                 *)
(*   earthquake_map.py  module-level functions, a `schedule` job and a     *)
(*                      daemon scheduler thread started by main()          *)
(*   test.py            class AdvancedEarthquakeTracker and its background *)
(*                      update thread                                      *)
(*                                                                         *)
(* Magnitudes are in tenths (40 is 4.0).  A feed entry's coordinates are   *)
(* the GeoJSON list [longitude, latitude, depth]; positions lie on a small *)
(* grid whose cells are 50 km apart.  The fields `place` and `time` of an  *)
(* entry are not modelled: no operation below branches on them.            *)
(***************************************************************************)
EXTENDS Integers, Sequences, FiniteSets, TLC

\* Python values are tagged records, so that any two of them can be compared:
\* None (JSON null), a number, a list or tuple, and `Absent` for the value of
\* a key that a dict does not hold.
None == [k |-> "None"]
Absent == [k |-> "Absent"]
Num(n) == [k |-> "num", v |-> n]
List(s) == [k |-> "list", v |-> s]

\* What one HTTP request does: Failed stands for a RequestException (a
\* timeout, no connection, a 4XX/5XX status); anything else is the body that
\* response.json() returns.
Failed == [k |-> "error"]

\* A server that accepts the request and never answers, and a call of
\* requests.get that never returns.
Unresponsive == [k |-> "unresponsive"]
Hangs == [k |-> "hangs"]

\* The timeout given to requests.get: none in earthquake_map.py, 10 seconds
\* in the tracker.
MapTimeout == None
TrackerTimeout == Num(10)

\* requests.get(url, timeout=timeout) and raise_for_status(), given what the
\* server does: without a timeout the call waits for an answer for ever,
\* with one it raises Timeout, a RequestException.
Request(response, timeout) ==
    IF response = Unresponsive
    THEN IF timeout = None THEN Hangs ELSE Failed
    ELSE response

\* The value of a variable that holds a call's result, before any call.
NotCalled == [k |-> "NotCalled"]

----------------------------------------------------------------------------
(* Bounds of the model *)

\* The longest feature list of a payload given to the pure functions.
MaxFeatures == 2

\* The most calls of start_background_updates on one tracker.
MaxStarts == 2

\* The most admissions of one id that are counted.
MaxAdmits == 2

\* The largest magnitude, in tenths, given to get_marker_color on its own.
MaxMagnitude == 70

----------------------------------------------------------------------------
(* Program constants *)

\* radius_km=100: the default of find_nearby_earthquakes and of the tracker.
RadiusKm == 100

\* main() of earthquake_map.py: update_interval = 60, and the bounds of
\* max(10, min(1440, update_interval)).
DefaultInterval == 60
MinInterval == 10
MaxInterval == 1440

\* Text typed at a prompt that float() or int() cannot parse, and the empty
\* line.
Malformed == [k |-> "malformed"]
Blank == [k |-> "blank"]

\* The answer "n" to "Do you want to provide your location?".
NoLocation == [k |-> "n"]

----------------------------------------------------------------------------
(* Feed payloads *)

Ids == {"a", "b"}

\* properties['mag']: missing key, null, 3.0 or 5.0
Mags == {Absent, None, Num(30), Num(50)}

\* feature['geometry']: None, or its 'coordinates' [lon, lat, depth]:
\* 50, 100 and 150 km from an observer at (0, 0), an entry without depth,
\* and an empty list.
Geometries ==
    {None, List(<<1, 0, 10>>), List(<<2, 0, 10>>), List(<<3, 0, 10>>),
     List(<<1, 0>>), List(<<>>)}

Features == [id : Ids, mag : Mags, geometry : Geometries]

SeqsUpTo(S, n) == UNION {[1..k -> S] : k \in 0..n}

\* A JSON body: None (null), or a dict given by its keys and, under the key
\* "features", its feature list.
Dict(keys, features) == [k |-> "dict", keys |-> keys, features |-> features]

\* bool(x) of a JSON body: None and the empty dict are falsy.
Truthy(d) == d # None /\ d.keys # {}

\* "features" in d
HasFeatures(d) == "features" \in d.keys

AbsInt(n) == IF n < 0 THEN -n ELSE n

\* geodesic(p, q).kilometers for p, q = (latitude, longitude) on the grid.
Geodesic(p, q) == 50 * (AbsInt(p.v[1] - q.v[1]) + AbsInt(p.v[2] - q.v[2]))

----------------------------------------------------------------------------
(* list.sort(key=...) / sorted(..., key=...): a stable sort by distance *)

\* InsertByDistance that puts an entry before the entries at its distance.
RECURSIVE InsertBeforeTies(_, _)
InsertBeforeTies(sorted, x) ==
    IF sorted = <<>> THEN <<x>>
    ELSE LET last == sorted[Len(sorted)] IN
         IF last.distance < x.distance THEN Append(sorted, x)
         ELSE Append(InsertBeforeTies(SubSeq(sorted, 1, Len(sorted) - 1), x), last)

RECURSIVE InsertByDistance(_, _)
InsertByDistance(sorted, x) ==
    IF sorted = <<>> THEN <<x>>
    ELSE LET last == sorted[Len(sorted)] IN
         IF last.distance <= x.distance THEN Append(sorted, x)
         ELSE Append(InsertByDistance(SubSeq(sorted, 1, Len(sorted) - 1), x), last)

RECURSIVE SortByDistance(_)
SortByDistance(s) ==
    IF s = <<>> THEN <<>>
    ELSE InsertByDistance(SortByDistance(SubSeq(s, 1, Len(s) - 1)), s[Len(s)])

----------------------------------------------------------------------------
(* earthquake_map.py: pure functions *)

\* get_marker_color whose first bound is inclusive.
MarkerColorUpTo(magnitude) ==
    IF magnitude <= 40 THEN "green"
    ELSE IF magnitude < 60 THEN "orange"
    ELSE "red"

\* get_marker_color(magnitude)
get_marker_color(magnitude) ==
    IF magnitude < 40 THEN "green"
    ELSE IF magnitude < 60 THEN "orange"
    ELSE "red"

\* AlreadyProcessed without the test: no entry is ever skipped.
NeverProcessed(eq_id, processed_ids) == FALSE

\* `eq_id in processed_ids`, the test that skips an entry already processed.
AlreadyProcessed(eq_id, processed_ids) == eq_id \in processed_ids

\* The locals of one call of find_nearby_earthquakes / create_earthquake_map
\* when its loop starts: processed_ids = set() and an empty result list.
\* `admitted` logs the ids in the order processed_ids.add(eq_id) ran; dups,
\* nulls and far count the entries skipped as already processed, for a null
\* magnitude and for their distance.
NewRun ==
    [raised |-> FALSE, processed_ids |-> {}, admitted |-> <<>>, out |-> <<>>,
     dups |-> 0, nulls |-> 0, far |-> 0]

\* WithinRadius with an exclusive bound.
StrictlyWithin(distance, radius_km) == distance < radius_km

\* `distance <= radius_km`
WithinRadius(distance, radius_km) == distance <= radius_km

\* FindNearbyStep that records an id as processed only when it reports the
\* entry: the radius filter comes before the deduplication.
FilterBeforeDedup(run, feature, user_location, radius_km) ==
    IF AlreadyProcessed(feature.id, run.processed_ids)
    THEN [run EXCEPT !.dups = @ + 1]
    ELSE
    IF feature.geometry = None \/ feature.mag = Absent
    THEN [run EXCEPT !.raised = TRUE]
    ELSE
    LET coordinates == feature.geometry.v IN
    IF feature.mag = None
    THEN [run EXCEPT !.nulls = @ + 1]
    ELSE IF Len(coordinates) < 2
    THEN [run EXCEPT !.raised = TRUE]
    ELSE
    LET eq_location == List(<<coordinates[2], coordinates[1]>>)
        distance == Geodesic(user_location, eq_location)
    IN  IF ~WithinRadius(distance, radius_km)
        THEN [run EXCEPT !.far = @ + 1]
        ELSE IF Len(coordinates) < 3
        THEN [run EXCEPT !.raised = TRUE]
        ELSE [run EXCEPT !.processed_ids = @ \cup {feature.id},
                         !.admitted = Append(@, feature.id),
                         !.out = Append(@,
                            [id |-> feature.id, magnitude |-> feature.mag,
                             distance |-> distance, depth |-> coordinates[3]])]

\* FindNearbyStep without the `continue` after the test of the magnitude: an
\* entry with a null magnitude goes on to the radius filter.
NoContinueOnNull(run, feature, user_location, radius_km) ==
    IF AlreadyProcessed(feature.id, run.processed_ids)
    THEN [run EXCEPT !.dups = @ + 1]
    ELSE
    LET seen == [run EXCEPT !.processed_ids = @ \cup {feature.id},
                            !.admitted = Append(@, feature.id)]
    IN  IF feature.geometry = None \/ feature.mag = Absent
        THEN [seen EXCEPT !.raised = TRUE]
        ELSE
        LET coordinates == feature.geometry.v
            checked == IF feature.mag = None
                       THEN [seen EXCEPT !.nulls = @ + 1] ELSE seen
        IN
        IF Len(coordinates) < 2
        THEN [checked EXCEPT !.raised = TRUE]
        ELSE
        LET eq_location == List(<<coordinates[2], coordinates[1]>>)
            distance == Geodesic(user_location, eq_location)
        IN  IF ~WithinRadius(distance, radius_km)
            THEN [checked EXCEPT !.far = @ + 1]
            ELSE IF Len(coordinates) < 3
            THEN [checked EXCEPT !.raised = TRUE]
            ELSE [checked EXCEPT !.out = Append(@,
                     [id |-> feature.id, magnitude |-> feature.mag,
                      distance |-> distance, depth |-> coordinates[3]])]

\* FindNearbyStep that tests the magnitude before processed_ids.add(eq_id):
\* an entry with a null magnitude leaves its id unseen.
NullBeforeSeen(run, feature, user_location, radius_km) ==
    IF AlreadyProcessed(feature.id, run.processed_ids)
    THEN [run EXCEPT !.dups = @ + 1]
    ELSE
    IF feature.geometry = None \/ feature.mag = Absent
    THEN [run EXCEPT !.raised = TRUE]
    ELSE
    IF feature.mag = None
    THEN [run EXCEPT !.nulls = @ + 1]
    ELSE
    LET seen == [run EXCEPT !.processed_ids = @ \cup {feature.id},
                            !.admitted = Append(@, feature.id)]
        coordinates == feature.geometry.v
    IN  IF Len(coordinates) < 2
        THEN [seen EXCEPT !.raised = TRUE]
        ELSE
        LET eq_location == List(<<coordinates[2], coordinates[1]>>)
            distance == Geodesic(user_location, eq_location)
        IN  IF ~WithinRadius(distance, radius_km)
            THEN [seen EXCEPT !.far = @ + 1]
            ELSE IF Len(coordinates) < 3
            THEN [seen EXCEPT !.raised = TRUE]
            ELSE [seen EXCEPT !.out = Append(@,
                     [id |-> feature.id, magnitude |-> feature.mag,
                      distance |-> distance, depth |-> coordinates[3]])]

\* One iteration of the loop of find_nearby_earthquakes over `feature`.
FindNearbyStep(run, feature, user_location, radius_km) ==
    IF AlreadyProcessed(feature.id, run.processed_ids)
    THEN [run EXCEPT !.dups = @ + 1]
    ELSE
    LET seen == [run EXCEPT !.processed_ids = @ \cup {feature.id},
                            !.admitted = Append(@, feature.id)]
    IN  IF feature.geometry = None \/ feature.mag = Absent
        THEN [seen EXCEPT !.raised = TRUE]      \* TypeError / KeyError
        ELSE
        LET coordinates == feature.geometry.v IN
        IF feature.mag = None
        THEN [seen EXCEPT !.nulls = @ + 1]
        ELSE IF Len(coordinates) < 2
        THEN [seen EXCEPT !.raised = TRUE]      \* IndexError
        ELSE
        LET eq_location == List(<<coordinates[2], coordinates[1]>>)
            distance == Geodesic(user_location, eq_location)
        IN  IF ~WithinRadius(distance, radius_km)
            THEN [seen EXCEPT !.far = @ + 1]
            ELSE IF Len(coordinates) < 3
            THEN [seen EXCEPT !.raised = TRUE]  \* IndexError: coordinates[2]
            ELSE [seen EXCEPT !.out = Append(@,
                     [id |-> feature.id, magnitude |-> feature.mag,
                      distance |-> distance, depth |-> coordinates[3]])]

RECURSIVE FindNearbyLoop(_, _, _, _, _)
FindNearbyLoop(run, features, i, user_location, radius_km) ==
    IF run.raised \/ i > Len(features) THEN run
    ELSE FindNearbyLoop(FindNearbyStep(run, features[i], user_location, radius_km),
                        features, i + 1, user_location, radius_km)

\* find_nearby_earthquakes(user_lat, user_lon, earthquake_data, radius_km):
\* the run's record, whose `out` is the list returned unless `raised`.
find_nearby_earthquakes(user_location, earthquake_data, radius_km) ==
    IF earthquake_data = None \/ ~HasFeatures(earthquake_data)
    THEN [NewRun EXCEPT !.raised = TRUE]        \* TypeError / KeyError
    ELSE LET run == FindNearbyLoop(NewRun, earthquake_data.features, 1,
                                   user_location, radius_km)
         IN  IF run.raised THEN run
             ELSE [run EXCEPT !.out = SortByDistance(@)]

\* One iteration of the loop of create_earthquake_map over `feature`.
CreateMapStep(run, feature, user_location) ==
    IF AlreadyProcessed(feature.id, run.processed_ids)
    THEN [run EXCEPT !.dups = @ + 1]
    ELSE
    LET seen == [run EXCEPT !.processed_ids = @ \cup {feature.id},
                            !.admitted = Append(@, feature.id)]
    IN  IF feature.geometry = None \/ feature.mag = Absent
        THEN [seen EXCEPT !.raised = TRUE]      \* TypeError / KeyError
        ELSE
        LET coordinates == feature.geometry.v IN
        IF feature.mag = None
        THEN [seen EXCEPT !.nulls = @ + 1]
        ELSE IF Len(coordinates) < 3
        THEN [seen EXCEPT !.raised = TRUE]      \* IndexError
        ELSE [seen EXCEPT !.out = Append(@,
                 [location |-> <<coordinates[2], coordinates[1]>>,
                  magnitude |-> feature.mag,
                  color |-> get_marker_color(feature.mag.v),
                  distance |-> IF user_location = None THEN None
                               ELSE Num(Geodesic(user_location,
                                        List(<<coordinates[2], coordinates[1]>>))),
                  depth |-> coordinates[3]])]

RECURSIVE CreateMapLoop(_, _, _, _)
CreateMapLoop(run, features, i, user_location) ==
    IF run.raised \/ i > Len(features) THEN run
    ELSE CreateMapLoop(CreateMapStep(run, features[i], user_location),
                       features, i + 1, user_location)

\* create_earthquake_map(data, user_location): the run's record, whose `out`
\* is the markers of the map returned unless `raised`.
create_earthquake_map(data, user_location) ==
    IF data = None \/ ~HasFeatures(data)
    THEN [NewRun EXCEPT !.raised = TRUE]
    ELSE CreateMapLoop(NewRun, data.features, 1, user_location)

\* fetch_earthquake_data(time_period) of earthquake_map.py, given what its
\* one request does.
MapFetch(response) == IF response = Failed THEN None ELSE response

\* `earthquake_data and earthquake_data.get('features')` of update_map
HasEvents(earthquake_data) ==
    /\ Truthy(earthquake_data)
    /\ HasFeatures(earthquake_data)
    /\ earthquake_data.features # <<>>

\* save_map's output_path
MapPath == [k |-> "path", v |-> "output/earthquake_map.html"]

\* update_map(time_period, user_location), given what the request of its
\* fetch does: the path of the map saved, or None.
update_map(response, user_location) ==
    LET data == MapFetch(response) IN
    IF HasEvents(data)
    THEN LET run == create_earthquake_map(data, user_location) IN
         [raised |-> run.raised,
          path |-> IF run.raised THEN None ELSE MapPath,
          saved |-> IF run.raised THEN None ELSE List(run.out)]
    ELSE [raised |-> FALSE, path |-> None, saved |-> None]

----------------------------------------------------------------------------
(* test.py: the pure part of AdvancedEarthquakeTracker *)

\* EARTHQUAKE_APIS, in the order the dict is iterated.
EARTHQUAKE_APIS == <<"USGS_PAST_DAY", "USGS_SIGNIFICANT">>

\* `data and "features" in data` after a request that did not raise.
SourceSucceeds(response) ==
    LET data == Request(response, TrackerTimeout) IN
    data # Failed /\ Truthy(data) /\ HasFeatures(data)

\* The loop of fetch_earthquake_data from source i on; responses[i] is what
\* source i answers if it is asked.  `contacted` lists the sources asked.
RECURSIVE FetchLoop(_, _)
FetchLoop(responses, i) ==
    IF i > Len(EARTHQUAKE_APIS)
    THEN [data |-> None, contacted |-> EARTHQUAKE_APIS]
    ELSE IF SourceSucceeds(responses[i])
    THEN [data |-> responses[i], contacted |-> SubSeq(EARTHQUAKE_APIS, 1, i)]
    ELSE FetchLoop(responses, i + 1)

\* fetch_earthquake_data without the return inside the loop: every source is
\* asked and the last one that succeeds wins.
RECURSIVE FetchLastLoop(_, _, _)
FetchLastLoop(responses, i, data) ==
    IF i > Len(EARTHQUAKE_APIS)
    THEN [data |-> data, contacted |-> EARTHQUAKE_APIS]
    ELSE FetchLastLoop(responses, i + 1,
                       IF SourceSucceeds(responses[i]) THEN responses[i] ELSE data)

FetchLastSource(responses) == FetchLastLoop(responses, 1, None)

\* fetch_earthquake_data whose first failure ends the call.
FetchFirstOnly(responses) ==
    [data |-> IF SourceSucceeds(responses[1]) THEN responses[1] ELSE None,
     contacted |-> SubSeq(EARTHQUAKE_APIS, 1, 1)]

\* AdvancedEarthquakeTracker.fetch_earthquake_data()
fetch_earthquake_data(responses) == FetchLoop(responses, 1)

\* properties.get("mag", 0)
GetMag(feature) == IF feature.mag = Absent THEN Num(0) ELSE feature.mag

\* The loop of analyze_earthquake_data: one row per feature, in feed order.
RECURSIVE AnalyzeLoop(_, _, _)
AnalyzeLoop(rows, features, i) ==
    IF i > Len(features) THEN [raised |-> FALSE, rows |-> rows]
    ELSE LET feature == features[i] IN
         IF feature.geometry = None
         THEN [raised |-> TRUE, rows |-> <<>>]          \* TypeError
         ELSE
         LET coords == feature.geometry.v IN
         IF Len(coords) < 2
         THEN [raised |-> TRUE, rows |-> <<>>]          \* IndexError
         ELSE AnalyzeLoop(
                Append(rows,
                       [latitude |-> coords[2], longitude |-> coords[1],
                        magnitude |-> GetMag(feature),
                        depth |-> IF Len(coords) > 2 THEN coords[3] ELSE 0]),
                features, i + 1)

\* analyze_earthquake_data() once self.earthquake_data holds `data`:
\* the DataFrame's rows (none for falsy data or data without "features").
AnalyzeRows(data) ==
    IF ~Truthy(data) \/ ~HasFeatures(data) THEN [raised |-> FALSE, rows |-> <<>>]
    ELSE AnalyzeLoop(<<>>, data.features, 1)

\* analyze_earthquake_data() of a tracker without data, given what the
\* sources answer to its fetch.
analyze_earthquake_data(responses) ==
    AnalyzeRows(fetch_earthquake_data(responses).data)

\* The loop of AdvancedEarthquakeTracker.find_nearby_earthquakes over the
\* DataFrame's rows.
RECURSIVE NearbyRows(_, _, _, _)
NearbyRows(rows, i, user_location, radius_km) ==
    IF i > Len(rows) THEN <<>>
    ELSE LET row == rows[i]
             distance == Geodesic(user_location,
                                  List(<<row.latitude, row.longitude>>))
             rest == NearbyRows(rows, i + 1, user_location, radius_km)
         IN  IF WithinRadius(distance, radius_km)
             THEN <<[magnitude |-> row.magnitude, distance |-> distance,
                     depth |-> row.depth]>> \o rest
             ELSE rest

\* AdvancedEarthquakeTracker.find_nearby_earthquakes() once
\* self.earthquake_data holds `data`.
TrackerFindNearby(data, user_location, radius_km) ==
    LET df == AnalyzeRows(data) IN
    IF df.raised THEN [raised |-> TRUE, out |-> <<>>]
    ELSE [raised |-> FALSE,
          out |-> SortByDistance(NearbyRows(df.rows, 1, user_location, radius_km))]

\* max(x, 0) of create_interactive_map
ClampMag(m) == IF m.v < 0 THEN Num(0) ELSE m

\* create_interactive_map() once self.earthquake_data holds `data`: the
\* points written to earthquake_map.html.  df['magnitude'] raises KeyError on
\* the DataFrame without rows; a null magnitude (NaN in the column, or None
\* when every magnitude is null) makes max() or the figure's size raise.
create_interactive_map(data) ==
    LET df == AnalyzeRows(data) IN
    IF df.raised \/ df.rows = <<>> THEN [raised |-> TRUE, out |-> <<>>]
    ELSE IF \E i \in 1..Len(df.rows) : df.rows[i].magnitude = None
    THEN [raised |-> TRUE, out |-> <<>>]
    ELSE [raised |-> FALSE,
          out |-> [i \in 1..Len(df.rows) |->
                     [df.rows[i] EXCEPT !.magnitude = ClampMag(@)]]]

----------------------------------------------------------------------------
(* State *)

VARIABLES
    prog,             \* which program runs: "earthquake_map" or "tracker"
    alive,            \* the process has not ended
    \* earthquake_map.py
    mainPc,           \* main(): "locate", "interval", "initial", "running"
    config,           \* what was typed: the coordinates and the interval
    update_interval,  \* main()'s update_interval, in minutes
    user_location,    \* None or the (lat, lon) main() read
    mapFile,          \* output/earthquake_map.html: None or the map's markers
    sched,            \* run_scheduler's thread: pc ("none", "waiting", "fetched",
                      \* "hung", "dead") and the data update_map fetched
    lastRun,          \* the run record of the latest create_earthquake_map call
    admitCount,       \* per function and id, how often processed_ids.add(id) ran
    \* test.py
    earthquake_data,  \* self.earthquake_data
    trackerMap,       \* ./earthquake_map.html: None or the figure's points
    threads,          \* the update_task threads started, each with its pc
    startCalls,       \* calls of start_background_updates so far
    fgpc,             \* the caller's position inside a call on the tracker
    fgReturn,         \* what find_nearby_earthquakes() last returned
    \* the pure functions on their own
    pureIn, pureOut

mapVars ==
    <<mainPc, config, update_interval, user_location, mapFile, sched, lastRun,
      admitCount>>
trackerVars == <<earthquake_data, trackerMap, threads, startCalls, fgpc, fgReturn>>
pureVars == <<pureIn, pureOut>>
vars == <<prog, alive, mapVars, trackerVars, pureVars>>

\* The threads started with daemon=False.
NonDaemonThread == FALSE

\* daemon=True of the update thread (test.py) and of the scheduler thread
\* (earthquake_map.py): the thread ends with the process.
DaemonUpdateThread == TRUE
DaemonSchedulerThread == TRUE

\* A thread can take a step: the process lives, or waits for it to end.
CanRun(daemon) == alive \/ ~daemon

\* AdvancedEarthquakeTracker(): user_lat = 0, user_lon = 0, radius_km = 100
TrackerLocation == List(<<0, 0>>)

----------------------------------------------------------------------------
(* What the feed answers during a run of a program *)

Feature(id, mag, geometry) == [id |-> id, mag |-> mag, geometry |-> geometry]

Collection(features) == Dict({"type", "features"}, features)

\* "a" of magnitude 5.0 at 50 km and "b" of magnitude 3.0 at 150 km
FeedNearFar ==
    Collection(<<Feature("a", Num(50), List(<<1, 0, 10>>)),
                 Feature("b", Num(30), List(<<3, 0, 10>>))>>)

\* "b" alone, at 100 km
FeedEdge == Collection(<<Feature("b", Num(50), List(<<2, 0, 10>>))>>)

\* "a" twice, the second time with a null magnitude
FeedTwice ==
    Collection(<<Feature("a", Num(50), List(<<1, 0, 10>>)),
                 Feature("a", None, List(<<1, 0, 10>>))>>)

\* no event at all
FeedEmpty == Collection(<<>>)

\* an entry whose coordinates lack the depth
FeedNoDepth == Collection(<<Feature("a", Num(50), List(<<1, 0>>))>>)

\* a JSON object without "features"
FeedNoCollection == Dict({"type"}, <<>>)

Feeds == {FeedNearFar, FeedEdge, FeedTwice, FeedEmpty, FeedNoDepth}

\* What the request of earthquake_map.py's fetch_earthquake_data can do.
Responses == {Failed, FeedNoCollection} \cup Feeds

\* What the sources of EARTHQUAKE_APIS answer to one call of the tracker's
\* fetch_earthquake_data, each source failing, not answering, or serving one
\* of two feeds.
ResponseLists ==
    [1..Len(EARTHQUAKE_APIS) -> {Failed, Unresponsive, FeedNearFar, FeedEdge}]

----------------------------------------------------------------------------
(* Initial states *)

\* A thread of update_task; `tick` is the parity of the ticks it has begun.
NewThread(interval_minutes) ==
    [pc |-> "idle", got |-> None, lazyFailed |-> FALSE,
     interval |-> interval_minutes, tick |-> 0]

NoRun == [fn |-> "none", data |-> None, run |-> NewRun]

\* The two functions that keep a processed_ids set.
Deduplicators == {"find_nearby_earthquakes", "create_earthquake_map"}

MapInit ==
    /\ mainPc = "locate"
    /\ config = [coords |-> NotCalled, interval |-> NotCalled]
    /\ update_interval = DefaultInterval
    /\ mapFile = None
    /\ sched = [pc |-> "none", data |-> None]
    /\ lastRun = NoRun
    /\ admitCount = [fn \in Deduplicators |-> [id \in Ids |-> 0]]

TrackerInit ==
    /\ earthquake_data = None
    /\ trackerMap = None
    /\ threads = <<>>
    /\ startCalls = 0
    /\ fgpc = "ready"
    /\ fgReturn = NotCalled

\* A run of one of the two programs: main() of earthquake_map.py, or a
\* client of a new AdvancedEarthquakeTracker.
Init ==
    /\ prog \in {"earthquake_map", "tracker"}
    /\ alive = TRUE
    /\ user_location = None
    /\ MapInit
    /\ TrackerInit
    /\ pureIn = NotCalled
    /\ pureOut = NotCalled

----------------------------------------------------------------------------
(* earthquake_map.py: main() and the scheduler thread *)

\* The admissions of a run added to the per-id totals.
RECURSIVE CountAdmits(_, _, _)
CountAdmits(count, admitted, i) ==
    IF i > Len(admitted) THEN count
    ELSE CountAdmits(
           [count EXCEPT ![admitted[i]] = IF @ < MaxAdmits THEN @ + 1 ELSE @],
           admitted, i + 1)

Ran(fn, data, run) ==
    /\ lastRun' = [fn |-> fn, data |-> data, run |-> run]
    /\ admitCount' = [admitCount EXCEPT ![fn] = CountAdmits(@, run.admitted, 1)]

\* What is typed for the location: "n", two numbers, or text that float()
\* rejects.
CoordInputs == {NoLocation, List(<<0, 0>>), Malformed}

\* What is typed for the update interval.
IntervalInputs == {Malformed, Blank, Num(0), Num(30), Num(2000)}

\* max(10, min(1440, update_interval)) without the bounds.
NoClamp(n) == n

\* max(10, min(1440, update_interval))
ClampInterval(n) ==
    LET upTo == IF n < MaxInterval THEN n ELSE MaxInterval
    IN  IF MinInterval > upTo THEN MinInterval ELSE upTo

\* main(), lines 287-314: with a location, the first fetch and the list of
\* nearby earthquakes.  float() raises ValueError on malformed text, which
\* is caught: the program goes on without a location.  Only ValueError is
\* caught: any other exception of find_nearby_earthquakes ends the process.
MainLocate ==
    /\ prog = "earthquake_map" /\ alive /\ mainPc = "locate"
    /\ \E typed \in CoordInputs :
         /\ config' = [config EXCEPT !.coords = typed]
         /\ IF typed \in {NoLocation, Malformed}
            THEN /\ user_location' = None
                 /\ mainPc' = "interval"
                 /\ UNCHANGED <<alive, lastRun, admitCount>>
            ELSE /\ user_location' = typed
                 /\ \E response \in Responses :
                      LET data == MapFetch(response)
                          run == find_nearby_earthquakes(typed, data, RadiusKm)
                      IN  IF ~Truthy(data)
                          THEN /\ mainPc' = "interval"
                               /\ UNCHANGED <<alive, lastRun, admitCount>>
                          ELSE /\ Ran("find_nearby_earthquakes", data, run)
                               /\ alive' = ~run.raised
                               /\ mainPc' = IF run.raised THEN mainPc ELSE "interval"
    /\ UNCHANGED <<prog, update_interval, mapFile, sched, trackerVars, pureVars>>

\* main(), lines 327-333: the update interval.  The empty line stands for
\* "60"; int() raises ValueError on malformed text and the default is kept;
\* a number is brought into 10..1440.
MainInterval ==
    /\ prog = "earthquake_map" /\ alive /\ mainPc = "interval"
    /\ \E typed \in IntervalInputs :
         /\ config' = [config EXCEPT !.interval = typed]
         /\ update_interval' =
              IF typed = Malformed THEN DefaultInterval
              ELSE IF typed = Blank THEN ClampInterval(DefaultInterval)
              ELSE ClampInterval(typed.v)
    /\ mainPc' = "initial"
    /\ UNCHANGED <<prog, alive, user_location, mapFile, sched, lastRun,
                   admitCount, trackerVars, pureVars>>

\* main(), lines 335-358: the initial update_map; with a map saved the
\* scheduler thread starts, without one main() returns.
MainInitialMap ==
    /\ prog = "earthquake_map" /\ alive /\ mainPc = "initial"
    /\ \E response \in Responses :
         LET data == MapFetch(response)
             run == create_earthquake_map(data, user_location)
         IN  IF ~HasEvents(data)
             THEN /\ alive' = FALSE
                  /\ UNCHANGED <<mainPc, mapFile, sched, lastRun, admitCount>>
             ELSE /\ Ran("create_earthquake_map", data, run)
                  /\ IF run.raised
                     THEN /\ alive' = FALSE
                          /\ UNCHANGED <<mainPc, mapFile, sched>>
                     ELSE /\ mapFile' = List(run.out)
                          /\ mainPc' = "running"
                          /\ sched' = [pc |-> "waiting", data |-> None]
                          /\ UNCHANGED alive
    /\ UNCHANGED <<prog, config, update_interval, user_location, trackerVars,
                   pureVars>>

\* update_job is due: update_map's fetch.  With a server that never answers
\* the thread stays inside requests.get.
SchedFetch ==
    /\ prog = "earthquake_map" /\ CanRun(DaemonSchedulerThread)
    /\ sched.pc = "waiting"
    /\ \E response \in Responses \cup {Unresponsive} :
         LET answer == Request(response, MapTimeout) IN
         sched' = IF answer = Hangs THEN [pc |-> "hung", data |-> None]
                  ELSE [pc |-> "fetched", data |-> MapFetch(answer)]
    /\ UNCHANGED <<prog, alive, mainPc, config, update_interval, user_location,
                   mapFile, lastRun, admitCount, trackerVars, pureVars>>

\* The rest of update_map: the map is built and saved, or None is returned.
\* An exception of create_earthquake_map leaves update_job, run_pending and
\* run_scheduler: the thread ends.
SchedUpdate ==
    /\ prog = "earthquake_map" /\ CanRun(DaemonSchedulerThread)
    /\ sched.pc = "fetched"
    /\ LET run == create_earthquake_map(sched.data, user_location) IN
       IF ~HasEvents(sched.data)
       THEN /\ sched' = [pc |-> "waiting", data |-> None]
            /\ UNCHANGED <<mapFile, lastRun, admitCount>>
       ELSE /\ Ran("create_earthquake_map", sched.data, run)
            /\ IF run.raised
               THEN /\ sched' = [pc |-> "dead", data |-> None]
                    /\ UNCHANGED mapFile
               ELSE /\ sched' = [pc |-> "waiting", data |-> None]
                    /\ mapFile' = List(run.out)
    /\ UNCHANGED <<prog, alive, mainPc, config, update_interval, user_location,
                   trackerVars, pureVars>>

\* The process ends: Ctrl+C in main() of earthquake_map.py, or the tracker's
\* client returns (`exit` in interactive_chat).
Exit ==
    /\ prog \in {"earthquake_map", "tracker"} /\ alive
    /\ alive' = FALSE
    /\ UNCHANGED <<prog, mapVars, trackerVars, pureVars>>

----------------------------------------------------------------------------
(* test.py: the operations of an AdvancedEarthquakeTracker *)

\* NeedsFetch of an analyze_earthquake_data that never fetches.
NeverFetches(data) == FALSE

\* `if not self.earthquake_data` of analyze_earthquake_data
NeedsFetch(data) == ~Truthy(data)

\* StartsThread of a start_background_updates that does nothing while a
\* thread runs.
StartsThreadOnce(running) == running = 0

\* Whether start_background_updates starts a thread: it always does.
StartsThread(running) == TRUE

\* interval_minutes of start_background_updates: a negative number and the
\* default.
Intervals == {-1, 5}

\* start_background_updates(interval_minutes): one more update_task thread.
StartBackgroundUpdates ==
    /\ prog = "tracker" /\ alive /\ fgpc = "ready"
    /\ startCalls < MaxStarts
    /\ startCalls' = startCalls + 1
    /\ \E interval_minutes \in Intervals :
         threads' = IF StartsThread(Len(threads))
                    THEN Append(threads, NewThread(interval_minutes))
                    ELSE threads
    /\ UNCHANGED <<prog, alive, mapVars, earthquake_data, trackerMap, fgpc,
                   fgReturn, pureVars>>

\* TickDue of a loop whose next tick does not wait for the one in progress.
TickAnyTime(pc) == pc # "dead"

\* update_task is at the top of its `while True`: the thread has just
\* started, or the time.sleep that follows the previous tick has returned.
TickDue(pc) == pc = "idle"

\* update_task, line 208: self.fetch_earthquake_data(), whose result is
\* dropped (`got` keeps it for the properties), then create_interactive_map()
\* up to the test of line 94.
TickFetch(t) ==
    /\ prog = "tracker" /\ CanRun(DaemonUpdateThread)
    /\ TickDue(threads[t].pc)
    /\ \E responses \in ResponseLists :
         threads' = [threads EXCEPT ![t] =
                       [pc |-> IF NeedsFetch(earthquake_data) THEN "lazy" ELSE "render",
                        got |-> fetch_earthquake_data(responses).data,
                        lazyFailed |-> FALSE,
                        interval |-> threads[t].interval,
                        tick |-> 1 - threads[t].tick]]
    /\ UNCHANGED <<prog, alive, mapVars, earthquake_data, trackerMap, startCalls,
                   fgpc, fgReturn, pureVars>>

\* analyze_earthquake_data, line 95, in the update thread:
\* self.earthquake_data = self.fetch_earthquake_data()
TickLazyFetch(t) ==
    /\ prog = "tracker" /\ CanRun(DaemonUpdateThread)
    /\ threads[t].pc = "lazy"
    /\ \E responses \in ResponseLists :
         LET data == fetch_earthquake_data(responses).data IN
         /\ earthquake_data' = data
         /\ threads' = [threads EXCEPT ![t].pc = "render",
                                       ![t].lazyFailed = (data = None)]
    /\ UNCHANGED <<prog, alive, mapVars, trackerMap, startCalls, fgpc,
                   fgReturn, pureVars>>

\* The rest of create_interactive_map in the update thread, then the sleep;
\* an exception is caught by update_task, which sleeps as well.  time.sleep
\* raises ValueError on a negative length, at line 211 and again at line 214
\* in the handler: the thread ends.
TickRender(t) ==
    /\ prog = "tracker" /\ CanRun(DaemonUpdateThread)
    /\ threads[t].pc = "render"
    /\ LET fig == create_interactive_map(earthquake_data) IN
       trackerMap' = IF fig.raised THEN trackerMap ELSE List(fig.out)
    /\ threads' = [threads EXCEPT ![t] =
                      [NewThread(threads[t].interval) EXCEPT
                         !.pc = IF threads[t].interval < 0 THEN "dead" ELSE "idle",
                         !.tick = threads[t].tick]]
    /\ UNCHANGED <<prog, alive, mapVars, earthquake_data, startCalls, fgpc,
                   fgReturn, pureVars>>

\* The caller's find_nearby_earthquakes(): analyze_earthquake_data up to the
\* test of line 94 and, when the data is there, the whole call.
LatestBegin ==
    /\ prog = "tracker" /\ alive /\ fgpc = "ready"
    /\ IF NeedsFetch(earthquake_data)
       THEN /\ fgpc' = "latest_fetching"
            /\ UNCHANGED fgReturn
       ELSE /\ fgReturn' = TrackerFindNearby(earthquake_data, TrackerLocation, RadiusKm)
            /\ UNCHANGED fgpc
    /\ UNCHANGED <<prog, alive, mapVars, earthquake_data, trackerMap, threads,
                   startCalls, pureVars>>

\* Line 95 in the caller's find_nearby_earthquakes(), and the rest of it.
LatestFetch ==
    /\ prog = "tracker" /\ alive /\ fgpc = "latest_fetching"
    /\ \E responses \in ResponseLists :
         LET data == fetch_earthquake_data(responses).data IN
         /\ earthquake_data' = data
         /\ fgReturn' = TrackerFindNearby(data, TrackerLocation, RadiusKm)
    /\ fgpc' = "ready"
    /\ UNCHANGED <<prog, alive, mapVars, trackerMap, threads, startCalls, pureVars>>

\* The caller's create_interactive_map(), as LatestBegin.
MapBegin ==
    /\ prog = "tracker" /\ alive /\ fgpc = "ready"
    /\ IF NeedsFetch(earthquake_data)
       THEN /\ fgpc' = "map_fetching"
            /\ UNCHANGED trackerMap
       ELSE /\ LET fig == create_interactive_map(earthquake_data) IN
               trackerMap' = IF fig.raised THEN trackerMap ELSE List(fig.out)
            /\ UNCHANGED fgpc
    /\ UNCHANGED <<prog, alive, mapVars, earthquake_data, threads, startCalls,
                   fgReturn, pureVars>>

\* Line 95 in the caller's create_interactive_map(), and the rest of it.
MapFetchAndRender ==
    /\ prog = "tracker" /\ alive /\ fgpc = "map_fetching"
    /\ \E responses \in ResponseLists :
         LET data == fetch_earthquake_data(responses).data
             fig == create_interactive_map(data)
         IN  /\ earthquake_data' = data
             /\ trackerMap' = IF fig.raised THEN trackerMap ELSE List(fig.out)
    /\ fgpc' = "ready"
    /\ UNCHANGED <<prog, alive, mapVars, threads, startCalls, fgReturn, pureVars>>

----------------------------------------------------------------------------
(* The programs *)

\* A step of update thread t, if there is one.
TickStep(t) ==
    /\ t \in 1..Len(threads)
    /\ (TickFetch(t) \/ TickLazyFetch(t) \/ TickRender(t))

Next ==
    \/ MainLocate
    \/ MainInterval
    \/ MainInitialMap
    \/ SchedFetch
    \/ SchedUpdate
    \/ Exit
    \/ StartBackgroundUpdates
    \/ \E t \in 1..Len(threads) : TickFetch(t)
    \/ \E t \in 1..Len(threads) : TickLazyFetch(t)
    \/ \E t \in 1..Len(threads) : TickRender(t)
    \/ LatestBegin
    \/ LatestFetch
    \/ MapBegin
    \/ MapFetchAndRender

Spec == Init /\ [][Next]_vars

\* A thread that can take a step is not held back forever.
FairSpec ==
    /\ Spec
    /\ \A t \in 1..MaxStarts : WF_vars(TickStep(t))
    /\ WF_vars(SchedFetch \/ SchedUpdate)

----------------------------------------------------------------------------
(* The pure functions on their own, on every input within the bounds *)

\* Observers (latitude, longitude) and radii given to the engine.
Observers == {List(<<0, 0>>), List(<<0, 1>>)}
Radii == {50, RadiusKm}

\* What a request can do: fail, or return null, an empty object, an object
\* without "features", or a feature collection.
\* Magnitudes, in tenths, given to get_marker_color: from -1.0 on.
Magnitudes == -10..MaxMagnitude

PureResponses ==
    {Failed, None, Dict({}, <<>>), FeedNoCollection, FeedEmpty, FeedNearFar, FeedEdge}

PureInputs ==
    [k : {"engine"}, features : SeqsUpTo(Features, MaxFeatures),
     user : Observers, radius : Radii]
    \cup [k : {"fetch"}, responses : [1..Len(EARTHQUAKE_APIS) -> PureResponses]]
    \cup [k : {"classify"}, magnitude : Magnitudes]

PureInit ==
    /\ prog = "functions"
    /\ alive = TRUE
    /\ user_location = None
    /\ MapInit
    /\ TrackerInit
    /\ pureIn \in PureInputs
    /\ pureOut = NotCalled

Returns(fn, res) ==
    /\ prog = "functions" /\ pureOut = NotCalled
    /\ pureOut' = [fn |-> fn, res |-> res]
    /\ UNCHANGED <<prog, alive, mapVars, trackerVars, pureIn>>

RunFindNearby ==
    /\ pureIn.k = "engine"
    /\ Returns("find_nearby_earthquakes",
               find_nearby_earthquakes(pureIn.user, Collection(pureIn.features),
                                       pureIn.radius))

RunCreateMap ==
    /\ pureIn.k = "engine"
    /\ Returns("create_earthquake_map",
               create_earthquake_map(Collection(pureIn.features), pureIn.user))

RunTrackerNearby ==
    /\ pureIn.k = "engine"
    /\ Returns("tracker.find_nearby_earthquakes",
               TrackerFindNearby(Collection(pureIn.features), pureIn.user,
                                 pureIn.radius))

RunTrackerMap ==
    /\ pureIn.k = "engine"
    /\ Returns("tracker.create_interactive_map",
               create_interactive_map(Collection(pureIn.features)))

RunMapFetch ==
    /\ pureIn.k = "fetch"
    /\ Returns("fetch_earthquake_data", MapFetch(pureIn.responses[1]))

RunTrackerFetch ==
    /\ pureIn.k = "fetch"
    /\ Returns("tracker.fetch_earthquake_data",
               fetch_earthquake_data(pureIn.responses))

RunMarkerColor ==
    /\ pureIn.k = "classify"
    /\ Returns("get_marker_color", get_marker_color(pureIn.magnitude))

RunUpdateMap ==
    /\ pureIn.k = "fetch"
    /\ Returns("update_map", update_map(pureIn.responses[1], None))

RunAnalyze ==
    /\ pureIn.k = "fetch"
    /\ Returns("tracker.analyze_earthquake_data",
               analyze_earthquake_data(pureIn.responses))

PureNext ==
    \/ RunMarkerColor
    \/ RunUpdateMap
    \/ RunAnalyze
    \/ RunFindNearby
    \/ RunCreateMap
    \/ RunTrackerNearby
    \/ RunTrackerMap
    \/ RunMapFetch
    \/ RunTrackerFetch

PureSpec == PureInit /\ [][PureNext]_vars

----------------------------------------------------------------------------
(* Properties *)

NoRepeats(seq) == \A i, j \in 1..Len(seq) : seq[i] = seq[j] => i = j

IdsOf(features) == {features[i].id : i \in 1..Len(features)}

\* C1 as stated: across the cycles of a process each id is admitted by a
\* deduplicator at most once in total; a presentation in a later cycle is
\* rejected.
C1_AdmittedOnceInTotal ==
    \A fn \in Deduplicators : \A id \in Ids : admitCount[fn][id] <= 1

\* C1 amended: within one call of find_nearby_earthquakes or
\* create_earthquake_map each id is admitted at most once, and the call
\* starts from an empty set: every id it is presented is admitted in it,
\* whatever earlier cycles admitted, and every later entry with that id is
\* skipped as a duplicate.
C1_AdmittedOncePerCall ==
    lastRun.fn # "none" =>
        /\ NoRepeats(lastRun.run.admitted)
        /\ ~lastRun.run.raised =>
             /\ HasFeatures(lastRun.data)
             /\ {lastRun.run.admitted[i] : i \in 1..Len(lastRun.run.admitted)}
                  = IdsOf(lastRun.data.features)
             /\ lastRun.run.dups
                  = Len(lastRun.data.features) - Len(lastRun.run.admitted)

\* The same feed in a later cycle: "a" is admitted a second time by
\* create_earthquake_map, and again only once within the call.
C1_Witness ==
    /\ lastRun.fn = "create_earthquake_map"
    /\ lastRun.data = FeedTwice
    /\ mapFile # None
    /\ sched.pc = "waiting"
    /\ admitCount["create_earthquake_map"]["a"] = 2
    /\ lastRun.run.dups = 1
    /\ Len(lastRun.run.out) = 1

\* C2 as stated: a step of a tick whose fetch failed leaves the published
\* data as it was: the tracker's self.earthquake_data, and the map file of
\* earthquake_map.py when update_map returns None.
C2_FailedTickKeepsSnapshot ==
    [][/\ \A t \in 1..Len(threads) :
            (/\ threads[t].pc = "lazy"
             /\ Len(threads') = Len(threads)
             /\ threads'[t].pc = "render"
             /\ threads'[t].lazyFailed)
            => earthquake_data' = earthquake_data
       /\ (sched.pc = "fetched" /\ ~HasEvents(sched.data) /\ sched'.pc = "waiting")
            => mapFile' = mapFile]_vars

\* C3 as stated: when a tick whose fetch succeeded completes, the published
\* data is the result of that tick's payload: the payload itself in
\* self.earthquake_data, the payload's markers in the map file (for
\* update_map a fetch that succeeded is one that served events).
C3_SuccessfulTickPublishes ==
    [][/\ \A t \in 1..Len(threads) :
            (/\ threads[t].pc = "render"
             /\ Len(threads') = Len(threads)
             /\ threads'[t].pc = "idle"
             /\ threads[t].got # None)
            => earthquake_data' = threads[t].got
       /\ (sched.pc = "fetched" /\ HasEvents(sched.data) /\ sched'.pc = "waiting")
            => mapFile' = List(create_earthquake_map(sched.data, user_location).out)]_vars

\* A response with a recognizable event collection.
Recognizable(response) ==
    /\ response \notin {Failed, None}
    /\ "features" \in response.keys

\* C4: the tracker's fetch returns the payload of the first source, in the
\* order of EARTHQUAKE_APIS, whose response holds an event collection, and
\* has asked that source and the ones before it, no later one.
C4_FirstSourceWins ==
    pureOut # NotCalled /\ pureOut.fn = "tracker.fetch_earthquake_data" =>
        \A i \in 1..Len(EARTHQUAKE_APIS) :
            (/\ Recognizable(pureIn.responses[i])
             /\ \A j \in 1..(i - 1) : ~Recognizable(pureIn.responses[j]))
            => /\ pureOut.res.data = pureIn.responses[i]
               /\ pureOut.res.contacted = SubSeq(EARTHQUAKE_APIS, 1, i)

\* Both sources would serve a collection: only the first is asked.
C4_Witness ==
    /\ pureOut # NotCalled /\ pureOut.fn = "tracker.fetch_earthquake_data"
    /\ pureIn.responses = <<FeedNearFar, FeedEdge>>
    /\ pureOut.res.data = FeedNearFar
    /\ pureOut.res.contacted = <<"USGS_PAST_DAY">>

\* C5 as stated: a fetch reports failure (None) if and only if each of its
\* sources failed or served a payload without an event collection.
C5_FailsIffEverySourceFailed ==
    /\ pureOut # NotCalled /\ pureOut.fn = "tracker.fetch_earthquake_data" =>
         (pureOut.res.data = None
            <=> \A i \in 1..Len(EARTHQUAKE_APIS) : ~Recognizable(pureIn.responses[i]))
    /\ pureOut # NotCalled /\ pureOut.fn = "fetch_earthquake_data" =>
         (pureOut.res = None <=> ~Recognizable(pureIn.responses[1]))

\* C5 amended: the tracker's fetch returns None if and only if every source
\* failed or served no event collection, and then it has asked every source;
\* the fetch of earthquake_map.py returns None if and only if its request
\* raised or the body is null, and returns any other body as it is, with or
\* without an event collection.
C5_FailsIffEverySourceFailedAmended ==
    /\ pureOut # NotCalled /\ pureOut.fn = "tracker.fetch_earthquake_data" =>
         /\ pureOut.res.data = None
              <=> \A i \in 1..Len(EARTHQUAKE_APIS) : ~Recognizable(pureIn.responses[i])
         /\ pureOut.res.data = None => pureOut.res.contacted = EARTHQUAKE_APIS
         /\ \A i \in 1..Len(EARTHQUAKE_APIS) :
              (\A j \in 1..i : ~Recognizable(pureIn.responses[j]))
              => Len(pureOut.res.contacted) >= IF i < Len(EARTHQUAKE_APIS)
                                              THEN i + 1 ELSE i
    /\ pureOut # NotCalled /\ pureOut.fn = "fetch_earthquake_data" =>
         /\ pureOut.res = None <=> pureIn.responses[1] \in {Failed, None}
         /\ pureOut.res # None => pureOut.res = pureIn.responses[1]

\* The first source fails, the second is asked and serves the payload.
C5_Witness ==
    /\ pureOut # NotCalled /\ pureOut.fn = "tracker.fetch_earthquake_data"
    /\ pureIn.responses = <<Failed, FeedEdge>>
    /\ pureOut.res.data = FeedEdge
    /\ pureOut.res.contacted = EARTHQUAKE_APIS

\* C6 as stated, for the only stop the code has, the end of the process: a
\* tick in progress when the process is stopped still completes.
C6_TickInProgressCompletes ==
    /\ \A t \in 1..MaxStarts :
         (~alive /\ t <= Len(threads) /\ threads[t].pc # "idle")
           ~> (t <= Len(threads) /\ threads[t].pc = "idle")
    /\ (~alive /\ sched.pc = "fetched") ~> (sched.pc # "fetched")

\* C6 amended: once the process has ended (Ctrl+C in main() of
\* earthquake_map.py, the tracker's client returning) no step is taken at
\* all: no tick starts, a tick in progress is cut off where it is and
\* publishes nothing, and the ended state is never left.
C6_NoStepAfterExit == [][alive]_vars

\* The process has ended while the update thread was inside a tick.
C6_Witness ==
    /\ ~alive
    /\ Len(threads) = 1
    /\ threads[1].pc = "render"
    /\ trackerMap = None

\* C7 as stated: however often start is called, at most one background loop
\* exists.
C7_AtMostOneLoop == Len(threads) <= 1

\* C7 amended: start_background_updates never looks for a running loop;
\* every call starts one more update_task thread, so that after n calls n
\* loops run on the tracker.
C7_OneLoopPerStart == Len(threads) = startCalls

\* Two calls of start_background_updates: two loops, both inside a tick.
C7_Witness ==
    /\ startCalls = 2
    /\ Len(threads) = 2
    /\ threads[1].pc = "render"
    /\ threads[2].pc = "lazy"

\* C8 as stated: the caller's find_nearby_earthquakes() never triggers a
\* fetch.
C8_LatestNeverFetches == fgpc # "latest_fetching"

\* C8 amended: find_nearby_earthquakes() triggers a fetch exactly when
\* self.earthquake_data holds nothing.  With data stored it returns at once
\* the list computed from the stored data; with none it fetches first, and
\* when that fetch fails it returns the empty list, not a marker.
C8_LatestFetchesWithoutData ==
    [][/\ (fgpc = "ready" /\ fgpc' = "latest_fetching") => earthquake_data = None
       /\ (fgpc = "ready" /\ fgpc' = "ready" /\ fgReturn' # fgReturn)
            => /\ earthquake_data # None
               /\ earthquake_data' = earthquake_data
               /\ fgReturn' = TrackerFindNearby(earthquake_data, TrackerLocation,
                                                RadiusKm)
       /\ (fgpc = "latest_fetching" /\ fgpc' = "ready" /\ earthquake_data' = None)
            => fgReturn' = [raised |-> FALSE, out |-> <<>>]]_vars

\* The caller's first find_nearby_earthquakes() has fetched the feed and
\* returned the event within the radius.
C8_Witness ==
    /\ fgpc = "ready"
    /\ threads = <<>>
    /\ earthquake_data = FeedNearFar
    /\ fgReturn # NotCalled
    /\ Len(fgReturn.out) = 1

EngineOutputs == {"find_nearby_earthquakes", "tracker.find_nearby_earthquakes"}

\* C9 as stated: every record of a nearby-events list carries the magnitude,
\* a number, of an entry of the feed: an entry whose magnitude is null or
\* absent is not in the list.
C9_NoNullMagnitudeInOutput ==
    (/\ pureOut # NotCalled
     /\ pureOut.fn \in EngineOutputs
     /\ ~pureOut.res.raised)
    => \A i \in 1..Len(pureOut.res.out) :
         /\ pureOut.res.out[i].magnitude \notin {None, Absent}
         /\ \E j \in 1..Len(pureIn.features) :
              pureIn.features[j].mag = pureOut.res.out[i].magnitude

\* The distance of feed entry j from the observer, when it has a position.
HasPosition(feature) == feature.geometry # None /\ Len(feature.geometry.v) >= 2

DistanceOf(feature, user) ==
    Geodesic(user, List(<<feature.geometry.v[2], feature.geometry.v[1]>>))

\* C10: every record of a nearby-events list lies within the radius, its
\* distance being that of an entry of the feed, and the bound is inclusive:
\* an entry at no more than radius_km that is neither a duplicate nor without
\* magnitude is in the list.
C10_WithinRadius ==
    (/\ pureOut # NotCalled
     /\ pureOut.fn \in EngineOutputs
     /\ ~pureOut.res.raised)
    => LET out == pureOut.res.out
           features == pureIn.features
       IN  /\ \A i \in 1..Len(out) :
                /\ out[i].distance <= pureIn.radius
                /\ \E j \in 1..Len(features) :
                     /\ HasPosition(features[j])
                     /\ DistanceOf(features[j], pureIn.user) = out[i].distance
           /\ \A j \in 1..Len(features) :
                (/\ HasPosition(features[j])
                 /\ DistanceOf(features[j], pureIn.user) <= pureIn.radius
                 /\ \/ pureOut.fn = "tracker.find_nearby_earthquakes"
                    \/ /\ features[j].mag \notin {None, Absent}
                       /\ \A h \in 1..(j - 1) : features[h].id # features[j].id)
                => \E i \in 1..Len(out) :
                     out[i].distance = DistanceOf(features[j], pureIn.user)

\* "a" at 50 km and "b" at 150 km with a radius of 100 km: only "a".
C10_Witness ==
    /\ pureOut # NotCalled
    /\ pureOut.fn = "find_nearby_earthquakes"
    /\ pureIn.features = FeedNearFar.features
    /\ pureIn.user = List(<<0, 0>>)
    /\ pureIn.radius = 100
    /\ ~pureOut.res.raised
    /\ Len(pureOut.res.out) = 1
    /\ pureOut.res.out[1].id = "a"
    /\ pureOut.res.out[1].distance = 50

\* The ids of the feed in ascending order.
IdRank(id) == IF id = "a" THEN 1 ELSE 2

\* The first entry of the feed that carries `id`.
FirstIndex(features, id) ==
    CHOOSE j \in 1..Len(features) :
        /\ features[j].id = id
        /\ \A h \in 1..(j - 1) : features[h].id # id

\* The entries of seq at distance d, in the order of seq.
RECURSIVE AtDistance(_, _)
AtDistance(seq, d) ==
    IF seq = <<>> THEN <<>>
    ELSE IF seq[1].distance = d THEN <<seq[1]>> \o AtDistance(Tail(seq), d)
    ELSE AtDistance(Tail(seq), d)

\* The records the tracker's engine makes of the feed's entries, in feed
\* order, before the radius filter and the sort.
TrackerRecords(features, user) ==
    [j \in 1..Len(features) |->
        [magnitude |-> GetMag(features[j]),
         distance |-> DistanceOf(features[j], user),
         depth |-> IF Len(features[j].geometry.v) > 2
                   THEN features[j].geometry.v[3] ELSE 0]]

\* C11 as stated: the nearby list of find_nearby_earthquakes is sorted by
\* distance, and two records at the same distance are in ascending order of
\* id, whatever the order of the feed.
C11_SortedByDistanceThenId ==
    (/\ pureOut # NotCalled
     /\ pureOut.fn = "find_nearby_earthquakes"
     /\ ~pureOut.res.raised)
    => LET out == pureOut.res.out IN
       \A i, j \in 1..Len(out) :
           i < j => \/ out[i].distance < out[j].distance
                    \/ /\ out[i].distance = out[j].distance
                       /\ IdRank(out[i].id) < IdRank(out[j].id)

\* C11 amended: a nearby list is sorted non-decreasing by distance, and two
\* records at the same distance are in the order of the feed (the sort is
\* stable and its only key is the distance): in find_nearby_earthquakes by
\* the first entry that carries their id, in the tracker, whose records have
\* no id, as the feed's entries at that distance follow each other.
C11_SortedByDistanceThenFeedOrder ==
    (/\ pureOut # NotCalled
     /\ pureOut.fn \in EngineOutputs
     /\ ~pureOut.res.raised)
    => LET out == pureOut.res.out
           features == pureIn.features
       IN  /\ \A i, j \in 1..Len(out) : i < j => out[i].distance <= out[j].distance
           /\ pureOut.fn = "find_nearby_earthquakes" =>
                \A i, j \in 1..Len(out) :
                    (i < j /\ out[i].distance = out[j].distance)
                    => FirstIndex(features, out[i].id) < FirstIndex(features, out[j].id)
           /\ pureOut.fn = "tracker.find_nearby_earthquakes" =>
                \A d \in {out[i].distance : i \in 1..Len(out)} :
                    AtDistance(out, d)
                      = AtDistance(TrackerRecords(features, pureIn.user), d)

\* "b" and then "a" in the feed, both at 50 km: the list is "b", "a".
C11_Witness ==
    /\ pureOut # NotCalled
    /\ pureOut.fn = "find_nearby_earthquakes"
    /\ pureIn.features = <<Feature("b", Num(50), List(<<1, 0, 10>>)),
                           Feature("a", Num(30), List(<<1, 0, 10>>))>>
    /\ pureIn.user = List(<<0, 0>>)
    /\ pureIn.radius = RadiusKm
    /\ ~pureOut.res.raised
    /\ Len(pureOut.res.out) = 2
    /\ pureOut.res.out[1].id = "b"
    /\ pureOut.res.out[2].id = "a"
    /\ pureOut.res.out[1].distance = pureOut.res.out[2].distance

\* The tier a colour stands for, as the comments of get_marker_color name it.
Tier(color) ==
    CASE color = "green" -> "Weak"
      [] color = "orange" -> "Moderate"
      [] color = "red" -> "Strong"

\* C12: get_marker_color returns a tier for every magnitude: Weak below 4.0,
\* Moderate from 4.0 to below 6.0, Strong from 6.0 on; 4.0 itself is
\* Moderate and 6.0 itself is Strong.
C12_ClassifierTiers ==
    (pureOut # NotCalled /\ pureOut.fn = "get_marker_color") =>
        LET magnitude == pureIn.magnitude IN
        /\ pureOut.res \in {"green", "orange", "red"}
        /\ magnitude < 40 <=> Tier(pureOut.res) = "Weak"
        /\ (40 <= magnitude /\ magnitude < 60) <=> Tier(pureOut.res) = "Moderate"
        /\ magnitude >= 60 <=> Tier(pureOut.res) = "Strong"

\* Magnitude 4.0 has been classified: Moderate.
C12_Witness ==
    /\ pureOut # NotCalled
    /\ pureOut.fn = "get_marker_color"
    /\ pureIn.magnitude = 40
    /\ pureOut.res = "orange"

\* An interval typed that is no number from 10 to 1440.
InvalidInterval(typed) ==
    \/ typed = Malformed
    \/ typed \notin {NotCalled, Blank, Malformed}
         /\ (typed.v < MinInterval \/ typed.v > MaxInterval)

\* C13 as stated: with malformed coordinates or an interval that is
\* malformed, non-positive or out of range, the scheduler is never started,
\* and no update thread exists whose interval is not positive.
C13_InvalidConfigurationRejected ==
    /\ (config.coords = Malformed \/ InvalidInterval(config.interval))
         => sched.pc = "none"
    /\ \A t \in 1..Len(threads) : threads[t].interval > 0

\* C13 amended: nothing typed is rejected.  main() of earthquake_map.py
\* replaces malformed coordinates by no location, a malformed or empty
\* interval by 60 and any other interval by the nearest of 10..1440, so that
\* the scheduler runs with an interval of 10..1440 minutes;
\* start_background_updates takes any interval, and a thread started with a
\* negative one ends after its first tick, no thread otherwise.
C13_InvalidConfigurationReplaced ==
    /\ (mainPc # "locate" /\ config.coords \in {Malformed, NoLocation})
         => user_location = None
    /\ mainPc \in {"initial", "running"} =>
         LET typed == config.interval IN
         /\ update_interval \in MinInterval..MaxInterval
         /\ typed \in {Malformed, Blank} => update_interval = DefaultInterval
         /\ typed \notin {Malformed, Blank} =>
              /\ typed.v \in MinInterval..MaxInterval => update_interval = typed.v
              /\ typed.v < MinInterval => update_interval = MinInterval
              /\ typed.v > MaxInterval => update_interval = MaxInterval
    /\ sched.pc # "none" => mainPc = "running"
    /\ \A t \in 1..Len(threads) :
         threads[t].pc = "dead" => threads[t].interval < 0

\* Malformed coordinates and the interval 0 were typed, and the scheduler
\* runs: without a location, every 10 minutes.
C13_Witness ==
    /\ config.coords = Malformed
    /\ config.interval = Num(0)
    /\ sched.pc = "waiting"
    /\ mapFile # None
    /\ user_location = None
    /\ update_interval = MinInterval

\* A response that serves an event collection without events.
ZeroEvents(response) == Recognizable(response) /\ response.features = <<>>

\* C14 as stated: a cycle whose fetch succeeded with zero events does not
\* end as a cycle whose fetch failed does: update_map returns something else
\* than after a failed request, analyze_earthquake_data something else than
\* after the failure of every source.
C14_ZeroEventsDiffersFromFailure ==
    /\ (/\ pureOut # NotCalled /\ pureOut.fn = "update_map"
        /\ ZeroEvents(pureIn.responses[1]))
         => pureOut.res # update_map(Failed, None)
    /\ (/\ pureOut # NotCalled /\ pureOut.fn = "tracker.analyze_earthquake_data"
        /\ ZeroEvents(fetch_earthquake_data(pureIn.responses).data))
         => pureOut.res
              # analyze_earthquake_data([i \in 1..Len(EARTHQUAKE_APIS) |-> Failed])

\* The ticks in progress: the update threads inside a tick, and the
\* scheduler thread inside update_job.
TicksInProgress ==
    Cardinality({t \in 1..Len(threads) : threads[t].pc \in {"lazy", "render"}})
    + (IF sched.pc \in {"fetched", "hung"} THEN 1 ELSE 0)

\* C15 as stated: at every moment at most one tick is in progress.
C15_AtMostOneTickInProgress == TicksInProgress <= 1

\* C15 amended: the ticks of one loop never overlap: a loop begins a tick
\* only when its previous tick has finished and the wait after it is over,
\* and the scheduler thread of earthquake_map.py is started only when main()
\* has finished its own update_map.  Ticks overlap only on a tracker whose
\* start_background_updates was called more than once, each call having
\* started a loop of its own.
C15_TicksOfALoopInSequence ==
    [][/\ \A t \in 1..Len(threads) :
            (Len(threads') >= Len(threads) /\ threads'[t].tick # threads[t].tick)
            => threads[t].pc = "idle" /\ threads'[t].pc \in {"lazy", "render"}
       /\ (sched.pc \notin {"fetched", "hung"} /\ sched'.pc \in {"fetched", "hung"})
            => sched.pc = "waiting" /\ mainPc = "running"
       /\ TicksInProgress' > 1 => startCalls' > 1]_vars

\* The only loop of a tracker has finished its first tick, which wrote the
\* map, and is inside its second one.
C15_Witness ==
    /\ startCalls = 1
    /\ Len(threads) = 1
    /\ threads[1].tick = 0
    /\ threads[1].pc = "render"
    /\ trackerMap # None

\* C16 as stated: no exception raised inside a tick ends the background
\* thread: the scheduler thread of earthquake_map.py never ends, nor does an
\* update thread of the tracker whose interval time.sleep accepts.
C16_BackgroundSurvivesErrors ==
    /\ sched.pc # "dead"
    /\ \A t \in 1..Len(threads) :
         threads[t].interval >= 0 => threads[t].pc # "dead"

\* C17 as stated: every tick that starts finishes, whatever the sources do,
\* unless the process ends first: an update thread inside a tick comes back
\* to its wait, and so does the scheduler thread inside update_job (or it
\* ends with the tick's exception).
C17_EveryTickFinishes ==
    /\ \A t \in 1..MaxStarts :
         (alive /\ t <= Len(threads) /\ threads[t].pc \in {"lazy", "render"})
           ~> (~alive \/ (t <= Len(threads) /\ threads[t].pc \in {"idle", "dead"}))
    /\ (alive /\ sched.pc \in {"fetched", "hung"})
         ~> (~alive \/ sched.pc \in {"waiting", "dead"})

\* C18 as stated: an entry with a null magnitude, without geometry or with
\* fewer than two coordinates is skipped and nothing more: on a feed whose
\* entries all have the key 'mag', find_nearby_earthquakes and
\* create_earthquake_map return, and find_nearby_earthquakes reports every
\* entry within the radius that has a magnitude and at least longitude and
\* latitude and is the first one with its id.
C18_RecordFailureOnlySkips ==
    (/\ pureOut # NotCalled
     /\ pureOut.fn \in Deduplicators
     /\ \A j \in 1..Len(pureIn.features) : pureIn.features[j].mag # Absent)
    => /\ ~pureOut.res.raised
       /\ pureOut.fn = "find_nearby_earthquakes" =>
            \A j \in 1..Len(pureIn.features) :
                LET feature == pureIn.features[j] IN
                (/\ feature.mag # None
                 /\ HasPosition(feature)
                 /\ DistanceOf(feature, pureIn.user) <= pureIn.radius
                 /\ \A h \in 1..(j - 1) : pureIn.features[h].id # feature.id)
                => \E i \in 1..Len(pureOut.res.out) :
                     pureOut.res.out[i].id = feature.id

\* An entry that find_nearby_earthquakes reports when it meets it alone.
Reportable(feature, user, radius) ==
    /\ feature.mag \notin {None, Absent}
    /\ feature.geometry # None
    /\ Len(feature.geometry.v) >= 3
    /\ DistanceOf(feature, user) <= radius

\* Entry h is the first sighting of its id and is rejected for its distance;
\* entry j is a later sighting of the same id, now within the radius.
ApproachesLater(features, h, j, user, radius) ==
    /\ h < j
    /\ features[h].id = features[j].id
    /\ \A g \in 1..(h - 1) : features[g].id # features[h].id
    /\ features[h].mag \notin {None, Absent}
    /\ HasPosition(features[h])
    /\ DistanceOf(features[h], user) > radius
    /\ Reportable(features[j], user, radius)

OutIds(out) == {out[i].id : i \in 1..Len(out)}

\* C19 as stated: an id whose first sighting was rejected for distance is
\* never reported afterwards: not for a later sighting in the same batch, and
\* not when a later cycle presents that sighting to find_nearby_earthquakes.
C19_SeenIdNeverReported ==
    (/\ pureOut # NotCalled
     /\ pureOut.fn = "find_nearby_earthquakes"
     /\ ~pureOut.res.raised)
    => \A h, j \in 1..Len(pureIn.features) :
         ApproachesLater(pureIn.features, h, j, pureIn.user, pureIn.radius)
         => /\ pureIn.features[j].id \notin OutIds(pureOut.res.out)
            /\ find_nearby_earthquakes(pureIn.user,
                                       Collection(<<pureIn.features[j]>>),
                                       pureIn.radius).out = <<>>

\* C19 amended: within one call of find_nearby_earthquakes the first
\* sighting of an id decides: every record reported stems from the first
\* entry that carries its id, and an id whose first sighting is rejected for
\* distance is not reported for a later sighting in the same batch.  The next
\* call starts without any id seen: presented the later sighting, it reports
\* it.
C19_FirstSightingDecides ==
    (/\ pureOut # NotCalled
     /\ pureOut.fn = "find_nearby_earthquakes"
     /\ ~pureOut.res.raised)
    => LET features == pureIn.features
           out == pureOut.res.out
       IN  /\ \A i \in 1..Len(out) :
                LET first == features[FirstIndex(features, out[i].id)] IN
                /\ out[i].magnitude = first.mag
                /\ out[i].distance = DistanceOf(first, pureIn.user)
           /\ \A h, j \in 1..Len(features) :
                ApproachesLater(features, h, j, pureIn.user, pureIn.radius)
                => /\ features[j].id \notin OutIds(out)
                   /\ OutIds(find_nearby_earthquakes(pureIn.user,
                                 Collection(<<features[j]>>), pureIn.radius).out)
                        = {features[j].id}

\* "a" at 150 km and then "a" at 50 km in one batch, radius 100 km: the
\* first is rejected for its distance, the second as a duplicate.
C19_Witness ==
    /\ pureOut # NotCalled
    /\ pureOut.fn = "find_nearby_earthquakes"
    /\ pureIn.features = <<Feature("a", Num(50), List(<<3, 0, 10>>)),
                           Feature("a", Num(50), List(<<1, 0, 10>>))>>
    /\ pureIn.user = List(<<0, 0>>)
    /\ pureIn.radius = RadiusKm
    /\ ~pureOut.res.raised
    /\ pureOut.res.out = <<>>
    /\ pureOut.res.far = 1
    /\ pureOut.res.dups = 1

\* The entries of the feed that are the first with their id.
FirstSightings(features) ==
    {j \in 1..Len(features) : \A h \in 1..(j - 1) : features[h].id # features[j].id}

\* An entry that find_nearby_earthquakes can read: the key 'mag' and the
\* three coordinates are there.
WellFormed(feature) ==
    /\ feature.mag # Absent
    /\ feature.geometry # None
    /\ Len(feature.geometry.v) >= 3

\* C20: a call of find_nearby_earthquakes that returns has put every entry
\* of the feed in exactly one of four classes: duplicates (an earlier entry
\* has the id), null magnitude, beyond the radius, reported; so that the
\* four counts add up to the number of entries.  On a feed of entries with
\* the key 'mag' and three coordinates the call always returns.
C20_EveryFeatureAccountedOnce ==
    (pureOut # NotCalled /\ pureOut.fn = "find_nearby_earthquakes") =>
        LET features == pureIn.features
            run == pureOut.res
            first == FirstSightings(features)
            rated == {j \in first : features[j].mag # None}
        IN  /\ (\A j \in 1..Len(features) : WellFormed(features[j])) => ~run.raised
            /\ ~run.raised =>
                 /\ Len(run.out) + run.nulls + run.far + run.dups = Len(features)
                 /\ run.dups = Len(features) - Cardinality(first)
                 /\ run.nulls = Cardinality(first \ rated)
                 /\ run.far = Cardinality(
                       {j \in rated :
                          DistanceOf(features[j], pureIn.user) > pureIn.radius})
                 /\ Len(run.out) = Cardinality(
                       {j \in rated :
                          DistanceOf(features[j], pureIn.user) <= pureIn.radius})

\* "a" with a null magnitude and "b" at 150 km, radius 100 km: one entry
\* rejected for its magnitude, one for its distance, none reported.
C20_Witness ==
    /\ pureOut # NotCalled
    /\ pureOut.fn = "find_nearby_earthquakes"
    /\ pureIn.features = <<Feature("a", None, List(<<1, 0, 10>>)),
                           Feature("b", Num(30), List(<<3, 0, 10>>))>>
    /\ pureIn.user = List(<<0, 0>>)
    /\ pureIn.radius = RadiusKm
    /\ ~pureOut.res.raised
    /\ pureOut.res.nulls = 1
    /\ pureOut.res.far = 1
    /\ pureOut.res.dups = 0
    /\ pureOut.res.out = <<>>

\* A step of the caller's context: it moves inside a call on the tracker,
\* gets a result, or leaves every update thread as it was.
ForegroundStep ==
    \/ fgpc' # fgpc
    \/ fgReturn' # fgReturn
    \/ threads' = threads

\* C21 as stated: self.earthquake_data and the map file of the tracker are
\* written by steps of an update thread only, never by the caller's context,
\* and the caller is never inside a fetch of its own while an update thread
\* is inside one.
C21_OnlyBackgroundWrites ==
    [][/\ (earthquake_data' # earthquake_data \/ trackerMap' # trackerMap)
            => ~ForegroundStep
       /\ ~(/\ fgpc \in {"latest_fetching", "map_fetching"}
            /\ \E t \in 1..Len(threads) : threads[t].pc = "lazy")]_vars

\* Entry h is the first sighting of its id and has a null magnitude; entry j
\* is a later sighting of the same id.
NullSeenFirst(features, h, j) ==
    /\ h < j
    /\ features[h].id = features[j].id
    /\ \A g \in 1..(h - 1) : features[g].id # features[h].id
    /\ features[h].mag = None

\* C22: in find_nearby_earthquakes and create_earthquake_map an id is
\* recorded as processed before the magnitude is tested: when the first
\* entry with an id has a null magnitude, the id is recorded once, every
\* later entry of the batch with that id is skipped as a duplicate, whatever
\* its magnitude and distance, and nothing of that id is in the output: the
\* nearby list has no record of it, the map a marker for no entry but the
\* first sightings that have a magnitude.
C22_NullFirstSightingConsumesId ==
    (/\ pureOut # NotCalled
     /\ pureOut.fn \in Deduplicators
     /\ ~pureOut.res.raised)
    => LET features == pureIn.features
           run == pureOut.res
       IN  /\ \A h, j \in 1..Len(features) :
                NullSeenFirst(features, h, j)
                => /\ features[j].id \in run.processed_ids
                   /\ run.nulls >= 1
                   /\ run.dups >= 1
                   /\ pureOut.fn = "find_nearby_earthquakes"
                        => features[j].id \notin OutIds(run.out)
           /\ (/\ \E h, j \in 1..Len(features) : NullSeenFirst(features, h, j)
                 /\ pureOut.fn = "create_earthquake_map")
                => Len(run.out) = Cardinality(
                     {g \in FirstSightings(features) : features[g].mag # None})

\* "a" with a null magnitude and then "a" of magnitude 5.0 at 50 km, radius
\* 100 km: the nearby list is empty.
C22_Witness ==
    /\ pureOut # NotCalled
    /\ pureOut.fn = "find_nearby_earthquakes"
    /\ pureIn.features = <<Feature("a", None, List(<<1, 0, 10>>)),
                           Feature("a", Num(50), List(<<1, 0, 10>>))>>
    /\ pureIn.user = List(<<0, 0>>)
    /\ pureIn.radius = RadiusKm
    /\ ~pureOut.res.raised
    /\ pureOut.res.out = <<>>
    /\ pureOut.res.nulls = 1
    /\ pureOut.res.dups = 1

====
